---------------------------- MODULE Spec2Model ----------------------------
(***************************************************************************)
(* RoadPrompt (src/src/roadprompt/prompt.py): the interactive prompt       *)
(* engine.  One Prompt object owns an input stream and an output stream;   *)
(* text, select, multi_select and autocomplete each write a prompt, block  *)
(* in _read, and either return or write a diagnostic and prompt again;     *)
(* confirm reads one line and returns.  Wizard runs named steps in order   *)
(* and collects what they return.                                          *)
(*                                                                         *)
(* A Python str is modelled as a tuple of one-character strings, so that   *)
(* int(), split(), strip(), rstrip(), startswith() and endswith() are      *)
(* computed character by character as CPython computes them.               *)
(*                                                                         *)
(* A step of the model runs from one blocking point to the next: a Call    *)
(* action runs the operation from its first statement to its first         *)
(* blocking read; a Read action delivers one readline() result and runs    *)
(* the loop body up to the return or up to the next blocking read.         *)
(***************************************************************************)
EXTENDS Integers, Sequences, FiniteSets, TLC

VARIABLES
    unread,       \* stream_in: number of lines not yet consumed by readline()
    out,          \* stream_out: the writes appended by the last step, in order
    op,           \* the Prompt method in progress (or last completed)
    status,       \* "idle" | "reading" (blocked in _read/getpass) | "returned" | "raised"
    choices,      \* argument choices of select / multi_select
    default,      \* argument default of select (0-based) or of confirm (a bool)
    min_select,   \* argument min_select of multi_select
    max_select,   \* argument max_select of multi_select (None when omitted)
    text_default, \* argument default of text
    validators,   \* argument validators of text / autocomplete
    password,     \* argument password of text
    suggestions,  \* argument suggestions of autocomplete
    value,        \* the line obtained by the last read (_read's or getpass's result)
    eof,          \* whether the last readline() hit end-of-input
    nread,        \* number of reads made by the call in progress
    selected,     \* local selected of multi_select (<<>> while unbound)
    evaluated,    \* number of validator calls the last pass made
    result,       \* the value returned by the last completed call
    steps,        \* Wizard.steps: the registered (name, fn) pairs, in order
    results,      \* Wizard.results: the dict, as its items in insertion order
    wstatus,      \* Wizard: "idle" | "in_step" (a step function runs) | "returned"
    step_i,       \* Wizard.run: 1-based position of the step whose function runs
    returns,      \* what the step functions of the current run returned, in order
    fresh,        \* whether results was empty when the current run began
    v_validator,  \* the validator last applied on its own
    v_value,      \* the string it was applied to
    v_result      \* the ValidationResult it returned

\* the state of one Prompt
pvars == <<unread, out, op, status, choices, default, min_select, max_select,
           text_default, validators, password, suggestions, value, eof,
           nread, selected, evaluated, result>>

\* the state of one Wizard
wvars == <<steps, results, wstatus, step_i, returns, fresh>>

\* the last application of a validator outside a prompt
vvars == <<v_validator, v_value, v_result>>

vars == <<pvars, wvars, vvars>>

-----------------------------------------------------------------------------
(* Bounds of the model.                                                    *)

MaxLines == 2      \* lines available on stream_in before end-of-input
MaxReads == 3      \* reads one call may make (its loop is unbounded in the code)
MaxChoices == 3    \* length of a choice list
MaxChain == 2      \* length of a validator chain
MaxSteps == 3      \* number of steps registered with one Wizard

-----------------------------------------------------------------------------
(* Python str primitives on tuples of characters.                          *)

\* str.isspace characters that TLA+ strings can denote
Whitespace == {" ", "\t", "\n", "\r", "\f"}

Digits == {"0", "1", "2", "3", "4", "5", "6", "7", "8", "9"}

DigitVal(c) ==
    CASE c = "0" -> 0 [] c = "1" -> 1 [] c = "2" -> 2 [] c = "3" -> 3
      [] c = "4" -> 4 [] c = "5" -> 5 [] c = "6" -> 6 [] c = "7" -> 7
      [] c = "8" -> 8 [] c = "9" -> 9

RECURSIVE lstrip(_, _)
lstrip(s, chars) ==
    IF s # <<>> /\ Head(s) \in chars THEN lstrip(Tail(s), chars) ELSE s

RECURSIVE rstrip(_, _)
rstrip(s, chars) ==
    IF s # <<>> /\ s[Len(s)] \in chars
    THEN rstrip(SubSeq(s, 1, Len(s) - 1), chars)
    ELSE s

strip(s) == lstrip(rstrip(s, Whitespace), Whitespace)

startswith(s, prefix) ==
    Len(prefix) <= Len(s) /\ SubSeq(s, 1, Len(prefix)) = prefix

endswith(s, suffix) ==
    Len(suffix) <= Len(s)
    /\ SubSeq(s, Len(s) - Len(suffix) + 1, Len(s)) = suffix

\* str.split(sep) for a one-character sep: never returns an empty list
RECURSIVE split(_, _)
split(s, sep) ==
    IF \E i \in 1..Len(s) : s[i] = sep
    THEN LET i == CHOOSE k \in 1..Len(s) :
                      s[k] = sep /\ \A j \in 1..(k - 1) : s[j] # sep
         IN  <<SubSeq(s, 1, i - 1)>> \o split(SubSeq(s, i + 1, Len(s)), sep)
    ELSE <<s>>

RECURSIVE DigitsValue(_)
DigitsValue(ds) ==
    IF ds = <<>> THEN 0
    ELSE 10 * DigitsValue(SubSeq(ds, 1, Len(ds) - 1)) + DigitVal(ds[Len(ds)])

IsDigit(c) == c \in Digits

\* int(s): surrounding whitespace ignored, an optional sign, then decimal
\* digits with single underscores allowed between digits.  ok = FALSE stands
\* for ValueError.
int(s) ==
    LET t      == strip(s)
        signed == t # <<>> /\ t[1] \in {"+", "-"}
        body   == IF signed THEN Tail(t) ELSE t
        wellformed ==
            /\ body # <<>>
            /\ \A i \in 1..Len(body) : body[i] \in Digits \cup {"_"}
            /\ body[1] \in Digits
            /\ body[Len(body)] \in Digits
            /\ \A i \in 1..(Len(body) - 1) : ~(body[i] = "_" /\ body[i + 1] = "_")
        magnitude == DigitsValue(SelectSeq(body, IsDigit))
    IN  IF ~wellformed THEN [ok |-> FALSE, val |-> 0]
        ELSE [ok  |-> TRUE,
              val |-> IF signed /\ t[1] = "-" THEN 0 - magnitude ELSE magnitude]

\* 10 ** k for k >= 0
RECURSIVE Pow10(_)
Pow10(k) == IF k = 0 THEN 1 ELSE 10 * Pow10(k - 1)

\* a run of decimal digits with single underscores allowed between digits
IsDigitGroup(g) ==
    /\ g # <<>>
    /\ \A i \in 1..Len(g) : g[i] \in Digits \cup {"_"}
    /\ g[1] \in Digits
    /\ g[Len(g)] \in Digits
    /\ \A i \in 1..(Len(g) - 1) : ~(g[i] = "_" /\ g[i + 1] = "_")

UpperCase == <<"A", "B", "C", "D", "E", "F", "G", "H", "I", "J", "K", "L", "M",
               "N", "O", "P", "Q", "R", "S", "T", "U", "V", "W", "X", "Y", "Z">>

LowerCase == <<"a", "b", "c", "d", "e", "f", "g", "h", "i", "j", "k", "l", "m",
               "n", "o", "p", "q", "r", "s", "t", "u", "v", "w", "x", "y", "z">>

\* str.lower() on ASCII text
lower(s) ==
    [i \in 1..Len(s) |->
        IF \E k \in 1..26 : UpperCase[k] = s[i]
        THEN LowerCase[CHOOSE k \in 1..26 : UpperCase[k] = s[i]]
        ELSE s[i]]

\* the float that is not a number, and the infinite floats
NaN == [kind |-> "nan", negative |-> FALSE, m |-> 0, e |-> 0]

Infinity(negative) == [kind |-> "inf", negative |-> negative, m |-> 0, e |-> 0]

\* a numeral without its sign
Unsigned(t) == IF t # <<>> /\ t[1] \in {"+", "-"} THEN Tail(t) ELSE t

IsNegative(t) == t # <<>> /\ t[1] = "-"

\* the position of the first c in s, or Len(s) + 1 when s has none
IndexOf(s, c) ==
    IF \E i \in 1..Len(s) : s[i] = c
    THEN CHOOSE k \in 1..Len(s) : s[k] = c /\ \A j \in 1..(k - 1) : s[j] # c
    ELSE Len(s) + 1

\* the finite float of the given sign, digits before and after the point
\* (underscores still in) and exponent, kept exactly as m * 10 ** e
FloatValue(negative, whole, fraction, expValue) ==
    [ok  |-> TRUE,
     val |-> [kind |-> "finite", negative |-> negative,
              m |-> DigitsValue(SelectSeq(whole \o fraction, IsDigit)),
              e |-> expValue - Len(SelectSeq(fraction, IsDigit))]]

\* a decimal numeral given as the parts of its mantissa around the point and
\* its exponent: digit groups for the integer part and after the point, at
\* least one of them, and a signed digit group for the exponent when there
\* is one
FloatOfParts(negative, parts, exponent, hasExp) ==
    IF /\ Len(parts) <= 2
       /\ \E i \in 1..Len(parts) : parts[i] # <<>>
       /\ \A i \in 1..Len(parts) : parts[i] = <<>> \/ IsDigitGroup(parts[i])
       /\ hasExp => IsDigitGroup(Unsigned(exponent))
    THEN FloatValue(negative, parts[1],
                    IF Len(parts) = 2 THEN parts[2] ELSE <<>>,
                    IF ~hasExp THEN 0
                    ELSE IF IsNegative(exponent)
                         THEN 0 - DigitsValue(SelectSeq(exponent, IsDigit))
                         ELSE DigitsValue(SelectSeq(exponent, IsDigit)))
    ELSE [ok |-> FALSE, val |-> NaN]

\* a numeral without sign, in lower case, with its exponent mark at epos
FloatOfDecimal(negative, body, epos) ==
    FloatOfParts(negative, split(SubSeq(body, 1, epos - 1), "."),
                 SubSeq(body, epos + 1, Len(body)), epos <= Len(body))

FloatOfBody(negative, body) ==
    IF body \in {<<"i", "n", "f">>, <<"i", "n", "f", "i", "n", "i", "t", "y">>}
    THEN [ok |-> TRUE, val |-> Infinity(negative)]
    ELSE IF body = <<"n", "a", "n">>
    THEN [ok |-> TRUE, val |-> NaN]
    ELSE FloatOfDecimal(negative, body, IndexOf(body, "e"))

FloatOfStripped(t) == FloatOfBody(IsNegative(t), lower(Unsigned(t)))

\* float(s): surrounding whitespace ignored, an optional sign, then "inf",
\* "infinity" or "nan" in any case, or a decimal numeral with an optional
\* exponent.  ok = FALSE stands for ValueError.
float(s) == FloatOfStripped(strip(s))

\* x < b, for a float x and an integer b
FloatLess(x, b) ==
    CASE x.kind = "nan" -> FALSE
      [] x.kind = "inf" -> x.negative
      [] x.kind = "finite" ->
           LET signedM == IF x.negative THEN 0 - x.m ELSE x.m
           IN  IF x.e >= 0 THEN signedM * Pow10(x.e) < b
               ELSE signedM < b * Pow10(0 - x.e)

\* x > b, for a float x and an integer b
FloatGreater(x, b) ==
    CASE x.kind = "nan" -> FALSE
      [] x.kind = "inf" -> ~x.negative
      [] x.kind = "finite" ->
           LET signedM == IF x.negative THEN 0 - x.m ELSE x.m
           IN  IF x.e >= 0 THEN signedM * Pow10(x.e) > b
               ELSE signedM > b * Pow10(0 - x.e)

-----------------------------------------------------------------------------
(* Data model.                                                             *)

None == <<>>             \* Python None for an optional int; a given int n is <<n>>

Some(n) == <<n>>

\* truth value of an optional int in a condition: None and 0 are falsy
Truthy(x) == x # None /\ x[1] # 0

\* Python 0-based indexing seq[idx], for 0 <= idx < len(seq)
At(seq, idx) == seq[idx + 1]

\* ValidationResult(valid, message); message "" when omitted
ValidationResult(valid, text, arg) ==
    [valid |-> valid, message |-> [text |-> text, arg |-> arg]]

\* one stream_out.write call: the fixed text and the values formatted into it
W(text, arg) == [text |-> text, arg |-> arg]

\* Choice(value, label, disabled, hint).  The value and label of a choice
\* are those of its position (the choices of example_usage); every second
\* position carries a hint.
ChoiceValues == << <<"r", "e", "d">>, <<"g", "r", "e", "e", "n">>,
                   <<"b", "l", "u", "e">>, <<"p", "u", "r", "p", "l", "e">>,
                   <<"g", "r", "e", "y">> >>

ChoiceLabels == <<"Red", "Green", "Blue", "Purple", "Grey">>

Choice(i, disabled) ==
    [value    |-> ChoiceValues[i],
     label    |-> ChoiceLabels[i],
     disabled |-> disabled,
     hint     |-> IF i % 2 = 1 THEN "Hot" ELSE ""]

ChoiceLists ==
    UNION {{[i \in 1..n |-> Choice(i, d[i])] : d \in [1..n -> BOOLEAN]}
           : n \in 0..MaxChoices}

-----------------------------------------------------------------------------
(* The input lines the user may type (without the line terminator).        *)

Lines ==
    { <<>>,
      <<"1">>, <<"2">>, <<"3">>, <<"4">>, <<"5">>, <<"0">>,
      <<"-", "1">>, <<" ", "2", " ">>, <<"x">>, <<" ">>, <<"a", "b">>,
      <<"1", ",", "2">>, <<"2", ",", "1">>, <<"1", ",", "3", ",", "2">>,
      <<"2", ",", "2">>, <<"0", ",", "5", ",", "1">>, <<"1", ",", " ", "2">>,
      <<"1", ",", ",", "2">>, <<"1", ",", "x">>, <<",", "1">>,
      <<"a", "\t">>, <<"z", "\t">>, <<"\t">>, <<"a", "\t", "\t">> }

\* the lines typed in answer to confirm
ConfirmLines ==
    { <<>>,
      <<"y">>, <<"Y">>, <<"y", "e", "s">>, <<"Y", "e", "s">>, <<"Y", "E", "S">>,
      <<"t", "r", "u", "e">>, <<"T", "R", "U", "E">>, <<"1">>,
      <<"n">>, <<"N", "o">>, <<"0">>, <<"x">>, <<" ", "y">>, <<"y", "y">>,
      <<"y", "e">>, <<" ">> }

\* what stream_in.readline() can return: "" at end-of-input, otherwise one
\* line with its terminator; the last line of a stream may lack it.
ReadlineOf(typed) ==
    IF unread = 0 THEN {<<>>}
    ELSE {Append(l, "\n") : l \in typed}
         \cup (IF unread = 1 THEN typed \ {<<>>} ELSE {})

Readline == ReadlineOf(Lines)

\* Prompt._read applied to a readline() result
_read(raw) == rstrip(raw, {"\n"})

-----------------------------------------------------------------------------
(* Validator.                                                              *)

\* a validator is the record of the factory that made it and its argument
required == [kind |-> "required", n |-> 0]

min_length(length) == [kind |-> "min_length", n |-> length]

max_length(length) == [kind |-> "max_length", n |-> length]

number(min_val, max_val) ==
    [kind |-> "number", min_val |-> min_val, max_val |-> max_val]

\* the body of number's validate, had it tested max_val first
NumberValidateMaxFirst(min_val, max_val, v) ==
    LET num == float(v)
    IN  IF ~num.ok
        THEN ValidationResult(FALSE, "Must be a number", <<>>)
        ELSE IF max_val # None /\ FloatGreater(num.val, max_val[1])
        THEN ValidationResult(FALSE, "Maximum value is", max_val)
        ELSE IF min_val # None /\ FloatLess(num.val, min_val[1])
        THEN ValidationResult(FALSE, "Minimum value is", min_val)
        ELSE ValidationResult(TRUE, "", <<>>)

\* the body of number's validate
NumberValidate(min_val, max_val, v) ==
    LET num == float(v)
    IN  IF ~num.ok
        THEN ValidationResult(FALSE, "Must be a number", <<>>)
        ELSE IF min_val # None /\ FloatLess(num.val, min_val[1])
        THEN ValidationResult(FALSE, "Minimum value is", min_val)
        ELSE IF max_val # None /\ FloatGreater(num.val, max_val[1])
        THEN ValidationResult(FALSE, "Maximum value is", max_val)
        ELSE ValidationResult(TRUE, "", <<>>)

Validators == {required, min_length(2), max_length(1)}

ValidatorChains ==
    UNION {[1..n -> Validators] : n \in 0..MaxChain}

\* validator(value)
Validate(validator, v) ==
    CASE validator.kind = "required" ->
           IF v = <<>> \/ strip(v) = <<>>
           THEN ValidationResult(FALSE, "This field is required", <<>>)
           ELSE ValidationResult(TRUE, "", <<>>)
      [] validator.kind = "min_length" ->
           IF Len(v) < validator.n
           THEN ValidationResult(FALSE, "Minimum length is", <<validator.n>>)
           ELSE ValidationResult(TRUE, "", <<>>)
      [] validator.kind = "max_length" ->
           IF Len(v) > validator.n
           THEN ValidationResult(FALSE, "Maximum length is", <<validator.n>>)
           ELSE ValidationResult(TRUE, "", <<>>)
      [] validator.kind = "number" ->
           NumberValidate(validator.min_val, validator.max_val, v)

\* RunValidators, had the loop gone on after a failure (no break): every
\* validator is called and the result of the last failing one is kept
RunValidatorsNoBreak(chain, v) ==
    LET failing == {i \in 1..Len(chain) : ~Validate(chain[i], v).valid}
    IN  IF failing = {}
        THEN [valid |-> TRUE, message |-> W("", <<>>), calls |-> Len(chain)]
        ELSE LET k == CHOOSE i \in failing : \A j \in failing : j <= i
             IN  [valid |-> FALSE, message |-> Validate(chain[k], v).message,
                  calls |-> Len(chain)]

\* the loop "for validator in validators": the result of the first failing
\* validator, where the loop breaks, or a valid result when none fails, and
\* the number of validators the loop called
RECURSIVE RunValidators(_, _)
RunValidators(chain, v) ==
    IF chain = <<>>
    THEN [valid |-> TRUE, message |-> W("", <<>>), calls |-> 0]
    ELSE LET r == Validate(Head(chain), v)
         IN  IF ~r.valid
             THEN [valid |-> FALSE, message |-> r.message, calls |-> 1]
             ELSE LET rest == RunValidators(Tail(chain), v)
                  IN  [rest EXCEPT !.calls = @ + 1]

-----------------------------------------------------------------------------
(* One pass of each retry loop, from the line just read to the return or   *)
(* to the end of the loop body: whether the call returns, what it returns, *)
(* and what it wrote.                                                      *)

Return(r) ==
    [returns |-> TRUE, result |-> r, written |-> <<>>, selected |-> <<>>,
     evaluated |-> 0]

Retry(written) ==
    [returns |-> FALSE, result |-> <<>>, written |-> written, selected |-> <<>>,
     evaluated |-> 0]

\* TextAttempt, had the validators been run on the line read instead of on
\* the value after the default was substituted
TextAttemptValidatesRawLine(dflt, chain, v) ==
    LET candidate == IF v = <<>> /\ dflt # <<>> THEN dflt ELSE v
        r         == RunValidators(chain, v)
    IN  IF r.valid THEN [Return(candidate) EXCEPT !.evaluated = r.calls]
        ELSE [Retry(<<W(r.message.text, r.message.arg)>>)
                  EXCEPT !.evaluated = r.calls]

\* Prompt.text, lines 112-124
TextAttempt(dflt, chain, v) ==
    LET candidate == IF v = <<>> /\ dflt # <<>> THEN dflt ELSE v
        r         == RunValidators(chain, candidate)
    IN  IF r.valid THEN [Return(candidate) EXCEPT !.evaluated = r.calls]
        ELSE [Retry(<<W(r.message.text, r.message.arg)>>)
                  EXCEPT !.evaluated = r.calls]

\* the answers confirm takes as yes, line 135
TruthyAnswers ==
    {<<"y">>, <<"y", "e", "s">>, <<"t", "r", "u", "e">>, <<"1">>}

\* ConfirmAttempt, had the line been compared as typed
ConfirmAttemptCaseSensitive(dflt, v) ==
    IF v = <<>> THEN Return(dflt) ELSE Return(v \in TruthyAnswers)

\* Prompt.confirm, lines 130-135; v is what _read returned
ConfirmAttempt(dflt, v) ==
    LET lowered == lower(v)
    IN  IF lowered = <<>> THEN Return(dflt)
        ELSE Return(lowered \in TruthyAnswers)

\* SelectAttempt, had the empty-line default gone through the disabled check
SelectAttemptDefaultChecked(cs, dflt, v) ==
    LET parsed == IF v = <<>> THEN [ok |-> TRUE, val |-> dflt + 1] ELSE int(v)
        idx    == parsed.val - 1
    IN  IF parsed.ok /\ 0 <= idx /\ idx < Len(cs)
        THEN IF At(cs, idx).disabled
             THEN Retry(<<W("This option is disabled", <<>>)>>)
             ELSE Return(At(cs, idx).value)
        ELSE Retry(<<W("Invalid selection", <<>>)>>)

\* SelectAttempt, had the typed number been used as the 0-based index
SelectAttemptZeroBased(cs, dflt, v) ==
    IF v = <<>> THEN Return(At(cs, dflt).value)
    ELSE LET parsed == int(v)
             idx    == parsed.val
         IN  IF parsed.ok /\ 0 <= idx /\ idx < Len(cs)
             THEN IF At(cs, idx).disabled
                  THEN Retry(<<W("This option is disabled", <<>>)>>)
                  ELSE Return(At(cs, idx).value)
             ELSE Retry(<<W("Invalid selection", <<>>)>>)

\* Prompt.select, lines 150-163
SelectAttempt(cs, dflt, v) ==
    IF v = <<>> THEN Return(At(cs, dflt).value)
    ELSE LET parsed == int(v)
             idx    == parsed.val - 1
         IN  IF parsed.ok /\ 0 <= idx /\ idx < Len(cs)
             THEN IF At(cs, idx).disabled
                  THEN Retry(<<W("This option is disabled", <<>>)>>)
                  ELSE Return(At(cs, idx).value)
             ELSE Retry(<<W("Invalid selection", <<>>)>>)

\* the list comprehension of line 183: each token's int() result
ParseTokens(v) ==
    LET tokens == split(v, ",")
    IN  [i \in 1..Len(tokens) |-> int(strip(tokens[i]))]

\* Selected, had the loop not tested the disabled flag
RECURSIVE SelectedKeepsDisabled(_, _)
SelectedKeepsDisabled(cs, indices) ==
    IF indices = <<>> THEN <<>>
    ELSE LET idx  == Head(indices)
             rest == SelectedKeepsDisabled(cs, Tail(indices))
         IN  IF 0 <= idx /\ idx < Len(cs)
             THEN <<At(cs, idx).value>> \o rest
             ELSE rest

\* Selected, had the loop skipped a value that is already selected
RECURSIVE SelectedDeduplicated(_, _)
SelectedDeduplicated(cs, indices) ==
    IF indices = <<>> THEN <<>>
    ELSE LET idx  == indices[Len(indices)]
             init == SelectedDeduplicated(cs, SubSeq(indices, 1, Len(indices) - 1))
         IN  IF /\ 0 <= idx /\ idx < Len(cs) /\ ~At(cs, idx).disabled
                /\ \A j \in 1..Len(init) : init[j] # At(cs, idx).value
             THEN Append(init, At(cs, idx).value)
             ELSE init

\* the loop of lines 184-188 over the parsed indices
RECURSIVE Selected(_, _)
Selected(cs, indices) ==
    IF indices = <<>> THEN <<>>
    ELSE LET idx  == Head(indices)
             rest == Selected(cs, Tail(indices))
         IN  IF 0 <= idx /\ idx < Len(cs) /\ ~At(cs, idx).disabled
             THEN <<At(cs, idx).value>> \o rest
             ELSE rest

\* MultiSelectAttempt without the empty-line case of lines 176-180
MultiSelectAttemptNoEmptyCase(cs, mn, mx, v, prev) ==
    LET parsed == ParseTokens(v)
    IN  IF \E i \in 1..Len(parsed) : ~parsed[i].ok
        THEN [Retry(<<W("Invalid input", <<>>)>>) EXCEPT !.selected = prev]
        ELSE LET indices == [i \in 1..Len(parsed) |-> parsed[i].val - 1]
                 sel     == Selected(cs, indices)
             IN  IF Len(sel) < mn
                 THEN [Retry(<<W("Select at least", <<mn>>)>>)
                           EXCEPT !.selected = sel]
                 ELSE IF Truthy(mx) /\ Len(sel) > mx[1]
                 THEN [Retry(<<W("Select at most", <<mx[1]>>)>>)
                           EXCEPT !.selected = sel]
                 ELSE [Return(sel) EXCEPT !.selected = sel]

IsParsed(p) == p.ok

\* MultiSelectAttempt, had selected been created once before the loop and
\* each token been parsed and appended in turn: the tokens that parse stay
\* selected when a later token or the count rejects the line
MultiSelectAttemptKeepsPartial(cs, mn, mx, v, prev) ==
    IF v = <<>>
    THEN IF mn = 0 THEN [Return(<<>>) EXCEPT !.selected = prev]
         ELSE [Retry(<<W("Select at least", <<mn>>)>>) EXCEPT !.selected = prev]
    ELSE LET parsed  == ParseTokens(v)
             good    == SelectSeq(parsed, IsParsed)
             indices == [i \in 1..Len(good) |-> good[i].val - 1]
             sel     == prev \o Selected(cs, indices)
         IN  IF \E i \in 1..Len(parsed) : ~parsed[i].ok
             THEN [Retry(<<W("Invalid input", <<>>)>>) EXCEPT !.selected = sel]
             ELSE IF Len(sel) < mn
             THEN [Retry(<<W("Select at least", <<mn>>)>>)
                       EXCEPT !.selected = sel]
             ELSE IF Truthy(mx) /\ Len(sel) > mx[1]
             THEN [Retry(<<W("Select at most", <<mx[1]>>)>>)
                       EXCEPT !.selected = sel]
             ELSE [Return(sel) EXCEPT !.selected = sel]

\* Prompt.multi_select, lines 176-200; prev is the local selected as the
\* previous pass left it, which line 184 replaces
MultiSelectAttempt(cs, mn, mx, v, prev) ==
    IF v = <<>>
    THEN IF mn = 0 THEN [Return(<<>>) EXCEPT !.selected = prev]
         ELSE [Retry(<<W("Select at least", <<mn>>)>>) EXCEPT !.selected = prev]
    ELSE LET parsed == ParseTokens(v)
         IN  IF \E i \in 1..Len(parsed) : ~parsed[i].ok
             THEN [Retry(<<W("Invalid input", <<>>)>>) EXCEPT !.selected = prev]
             ELSE LET indices == [i \in 1..Len(parsed) |-> parsed[i].val - 1]
                      sel     == Selected(cs, indices)
                  IN  IF Len(sel) < mn
                      THEN [Retry(<<W("Select at least", <<mn>>)>>)
                                EXCEPT !.selected = sel]
                      ELSE IF Truthy(mx) /\ Len(sel) > mx[1]
                      THEN [Retry(<<W("Select at most", <<mx[1]>>)>>)
                                EXCEPT !.selected = sel]
                      ELSE [Return(sel) EXCEPT !.selected = sel]

SuggestionLimit == 5     \* matches[:5]

\* AutocompleteAttempt, had every match been displayed (no [:5])
AutocompleteAttemptShowsAll(sugg, chain, v) ==
    IF endswith(v, <<"\t">>)
    THEN LET prefix  == rstrip(v, {"\t"})
             IsMatch(s) == startswith(s, prefix)
             matches == SelectSeq(sugg, IsMatch)
         IN  IF matches # <<>> THEN Retry(<<W("Suggestions", matches)>>)
             ELSE Retry(<<>>)
    ELSE LET r == RunValidators(chain, v)
         IN  IF r.valid THEN [Return(v) EXCEPT !.evaluated = r.calls]
             ELSE [Retry(<<W(r.message.text, r.message.arg)>>)
                       EXCEPT !.evaluated = r.calls]

\* Prompt.autocomplete, lines 209-225
AutocompleteAttempt(sugg, chain, v) ==
    IF endswith(v, <<"\t">>)
    THEN LET prefix  == rstrip(v, {"\t"})
             IsMatch(s) == startswith(s, prefix)
             matches == SelectSeq(sugg, IsMatch)
             shown   == SubSeq(matches, 1,
                               IF Len(matches) < SuggestionLimit
                               THEN Len(matches) ELSE SuggestionLimit)
         IN  IF matches # <<>> THEN Retry(<<W("Suggestions", shown)>>)
             ELSE Retry(<<>>)
    ELSE LET r == RunValidators(chain, v)
         IN  IF r.valid THEN [Return(v) EXCEPT !.evaluated = r.calls]
             ELSE [Retry(<<W(r.message.text, r.message.arg)>>)
                       EXCEPT !.evaluated = r.calls]

-----------------------------------------------------------------------------
(* Arguments the caller may pass.                                          *)

\* the min_select values and the max_select numbers passed
SelectCounts == {0, 1, 2}

TextDefaults == {<<>>, <<"a", "b">>, <<" ">>}

SuggestionLists ==
    { <<>>,
      << <<"a", "b">>, <<"b">>, <<"a">> >>,
      << <<"a">>, <<"a", "1">>, <<"a", "2">>, <<"b">>, <<"a", "3">>,
         <<"a", "4">>, <<"a", "5">> >> }

-----------------------------------------------------------------------------
(* What each operation writes.                                             *)

\* lines 99-104: message, " [default]" when default is truthy, ": "
TextPrompt(dflt) ==
    W("message: ", IF dflt # <<>> THEN <<dflt>> ELSE <<>>)

\* lines 127-128
ConfirmPrompt(dflt) ==
    W("message hint: ", <<IF dflt THEN "[Y/n]" ELSE "[y/N]">>)

\* line 144, for the choice at 0-based position i
SelectChoiceLine(cs, dflt, i) ==
    W("choice",
      << IF i = dflt THEN ">" ELSE " ",
         i + 1,
         At(cs, i).label,
         IF At(cs, i).disabled THEN " (disabled)" ELSE "",
         IF At(cs, i).hint # "" THEN " - " ELSE "",
         At(cs, i).hint >>)

\* lines 138-144
SelectHeader(cs, dflt) ==
    <<W("message", <<>>)>>
    \o [p \in 1..Len(cs) |-> SelectChoiceLine(cs, dflt, p - 1)]

\* line 147
SelectPrompt(cs) == W("Enter choice", <<Len(cs)>>)

\* line 170, for the choice at 0-based position i
MultiSelectChoiceLine(cs, i) ==
    W("choice",
      << i + 1,
         At(cs, i).label,
         IF At(cs, i).disabled THEN " (disabled)" ELSE "" >>)

\* lines 166-170
MultiSelectHeader(cs) ==
    <<W("message (comma-separated numbers)", <<>>)>>
    \o [p \in 1..Len(cs) |-> MultiSelectChoiceLine(cs, p - 1)]

\* line 173
MultiSelectPrompt == W("Enter choices: ", <<>>)

\* line 206
AutocompletePrompt == W("message (tab for suggestions): ", <<>>)

-----------------------------------------------------------------------------
(* State machine.                                                          *)

Init ==
    /\ unread \in 0..MaxLines
    /\ out = <<>>
    /\ op = "none"
    /\ status = "idle"
    /\ choices = <<>>
    /\ default = 0
    /\ min_select = 0
    /\ max_select = None
    /\ text_default = <<>>
    /\ validators = <<>>
    /\ password = FALSE
    /\ suggestions = <<>>
    /\ value = <<>>
    /\ eof = FALSE
    /\ nread = 0
    /\ selected = <<>>
    /\ evaluated = 0
    /\ result = <<>>
    /\ steps = <<>>
    /\ results = <<>>
    /\ wstatus = "idle"
    /\ step_i = 0
    /\ returns = <<>>
    /\ fresh = TRUE
    /\ v_validator = required
    /\ v_value = <<>>
    /\ v_result = Validate(required, <<>>)

\* a call is made when the caller runs (the engine is not reentrant)
CanCall == status = "idle"

\* entry of a Prompt method up to its first blocking read
Enter(o, written) ==
    /\ CanCall
    /\ op' = o
    /\ status' = "reading"
    /\ out' = written
    /\ value' = <<>>
    /\ eof' = FALSE
    /\ nread' = 0
    /\ selected' = <<>>
    /\ evaluated' = 0
    /\ result' = <<>>
    /\ UNCHANGED unread
    /\ UNCHANGED <<wvars, vvars>>

\* StreamRead, had a read taken the line after the next one as well
StreamReadTakesTwo(raw) ==
    /\ nread < MaxReads
    /\ value' = _read(raw)
    /\ eof' = (unread = 0)
    /\ unread' = IF unread < 2 THEN 0 ELSE unread - 2
    /\ nread' = nread + 1

\* Prompt._read: one readline() on stream_in, terminator stripped
StreamRead(raw) ==
    /\ nread < MaxReads
    /\ value' = _read(raw)
    /\ eof' = (unread = 0)
    /\ unread' = IF unread = 0 THEN 0 ELSE unread - 1
    /\ nread' = nread + 1

\* the end of a pass: return to the caller, or write the next prompt and
\* block in the next read
Finish(outcome, prompt) ==
    /\ status' = IF outcome.returns THEN "returned" ELSE "reading"
    /\ result' = IF outcome.returns THEN outcome.result ELSE result
    /\ out' = IF outcome.returns THEN outcome.written
              ELSE outcome.written \o <<prompt>>
    /\ evaluated' = outcome.evaluated

\* UNCHANGED_ARGS, had a pass removed the disabled choices from the list it
\* was given
UNCHANGED_ARGS_DropsDisabled ==
    /\ choices' = LET IsEnabled(c) == ~c.disabled
                  IN  SelectSeq(choices, IsEnabled)
    /\ UNCHANGED <<op, default, min_select, max_select, text_default,
                   validators, password, suggestions>>
    /\ UNCHANGED <<wvars, vvars>>

\* a pass leaves the arguments of the call as they are (and nothing of the
\* Prompt touches a Wizard or a validator)
UNCHANGED_ARGS ==
    /\ UNCHANGED <<op, choices, default, min_select, max_select, text_default,
                   validators, password, suggestions>>
    /\ UNCHANGED <<wvars, vvars>>

\* Prompt.text(message, default, validators, password), lines 95-110
CallText ==
    \E d \in TextDefaults, chain \in ValidatorChains, pw \in BOOLEAN :
        /\ Enter("text", <<TextPrompt(d)>>)
        /\ text_default' = d
        /\ validators' = chain
        /\ password' = pw
        /\ choices' = <<>> /\ default' = 0 /\ min_select' = 0
        /\ max_select' = None /\ suggestions' = <<>>

\* Prompt.text, lines 110-124 and 99-104 of the next pass, password false
ReadText ==
    /\ status = "reading" /\ op = "text" /\ ~password
    /\ \E raw \in Readline :
        /\ StreamRead(raw)
        /\ Finish(TextAttempt(text_default, validators, _read(raw)),
                  TextPrompt(text_default))
    /\ UNCHANGED selected
    /\ UNCHANGED_ARGS

\* Prompt.text, lines 106-124 with password true: getpass.getpass("") reads
\* the terminal, not stream_in, and raises EOFError at end-of-input
GetpassText ==
    /\ status = "reading" /\ op = "text" /\ password
    /\ nread < MaxReads
    /\ nread' = nread + 1
    /\ \/ \E line \in Lines :
            /\ value' = line
            /\ eof' = FALSE
            /\ Finish(TextAttempt(text_default, validators, line),
                      TextPrompt(text_default))
       \/ /\ value' = value
          /\ eof' = TRUE
          /\ status' = "raised"
          /\ out' = <<>>
          /\ result' = result
          /\ evaluated' = evaluated
    /\ UNCHANGED unread
    /\ UNCHANGED selected
    /\ UNCHANGED_ARGS

\* Prompt.confirm(message, default), lines 126-130
CallConfirm ==
    \E d \in BOOLEAN :
        /\ Enter("confirm", <<ConfirmPrompt(d)>>)
        /\ default' = d
        /\ choices' = <<>> /\ min_select' = 0 /\ max_select' = None
        /\ text_default' = <<>> /\ validators' = <<>> /\ password' = FALSE
        /\ suggestions' = <<>>

\* Prompt.confirm, lines 130-135
ReadConfirm ==
    /\ status = "reading" /\ op = "confirm"
    /\ \E raw \in ReadlineOf(ConfirmLines) :
        /\ StreamRead(raw)
        /\ Finish(ConfirmAttempt(default, _read(raw)), ConfirmPrompt(default))
    /\ UNCHANGED selected
    /\ UNCHANGED_ARGS

\* Prompt.select(message, choices, default), lines 137-148; choices is
\* non-empty and default a valid 0-based index
CallSelect ==
    \E cs \in ChoiceLists :
        /\ Len(cs) >= 1
        /\ \E d \in 0..(Len(cs) - 1) :
            /\ Enter("select", SelectHeader(cs, d) \o <<SelectPrompt(cs)>>)
            /\ choices' = cs
            /\ default' = d
            /\ min_select' = 0 /\ max_select' = None /\ text_default' = <<>>
            /\ validators' = <<>> /\ password' = FALSE /\ suggestions' = <<>>

\* Prompt.select, lines 148-163 and 147 of the next pass
ReadSelect ==
    /\ status = "reading" /\ op = "select"
    /\ \E raw \in Readline :
        /\ StreamRead(raw)
        /\ Finish(SelectAttempt(choices, default, _read(raw)),
                  SelectPrompt(choices))
    /\ UNCHANGED selected
    /\ UNCHANGED_ARGS

\* Prompt.multi_select(message, choices, min_select, max_select), lines 165-174
CallMultiSelect ==
    \E cs \in ChoiceLists, mn \in SelectCounts,
       mx \in {None} \cup {Some(n) : n \in SelectCounts} :
        /\ Enter("multi_select", MultiSelectHeader(cs) \o <<MultiSelectPrompt>>)
        /\ choices' = cs
        /\ min_select' = mn
        /\ max_select' = mx
        /\ default' = 0 /\ text_default' = <<>> /\ validators' = <<>>
        /\ password' = FALSE /\ suggestions' = <<>>

\* Prompt.multi_select, lines 174-200 and 173 of the next pass
ReadMultiSelect ==
    /\ status = "reading" /\ op = "multi_select"
    /\ \E raw \in Readline :
        LET outcome == MultiSelectAttempt(choices, min_select, max_select,
                                          _read(raw), selected)
        IN  /\ StreamRead(raw)
            /\ Finish(outcome, MultiSelectPrompt)
            /\ selected' = outcome.selected
    /\ UNCHANGED_ARGS

\* Prompt.autocomplete(message, suggestions, validators), lines 202-207
CallAutocomplete ==
    \E sugg \in SuggestionLists, chain \in ValidatorChains :
        /\ Enter("autocomplete", <<AutocompletePrompt>>)
        /\ suggestions' = sugg
        /\ validators' = chain
        /\ choices' = <<>> /\ default' = 0 /\ min_select' = 0
        /\ max_select' = None /\ text_default' = <<>> /\ password' = FALSE

\* Prompt.autocomplete, lines 207-225 and 206 of the next pass
ReadAutocomplete ==
    /\ status = "reading" /\ op = "autocomplete"
    /\ \E raw \in Readline :
        /\ StreamRead(raw)
        /\ Finish(AutocompleteAttempt(suggestions, validators, _read(raw)),
                  AutocompletePrompt)
    /\ UNCHANGED selected
    /\ UNCHANGED_ARGS

\* the caller takes the result (or the exception) of the finished call and
\* runs on: the frame of the call is gone, the streams stay as they are
CallerResumes ==
    /\ status \in {"returned", "raised"}
    /\ status' = "idle"
    /\ op' = "none"
    /\ out' = <<>>
    /\ choices' = <<>> /\ default' = 0 /\ min_select' = 0
    /\ max_select' = None /\ text_default' = <<>> /\ validators' = <<>>
    /\ password' = FALSE /\ suggestions' = <<>>
    /\ value' = <<>> /\ eof' = FALSE /\ nread' = 0 /\ result' = <<>>
    /\ selected' = <<>> /\ evaluated' = 0
    /\ UNCHANGED unread
    /\ UNCHANGED <<wvars, vvars>>

Next ==
    \/ CallerResumes
    \/ CallText
    \/ ReadText
    \/ GetpassText
    \/ CallConfirm
    \/ ReadConfirm
    \/ CallSelect
    \/ ReadSelect
    \/ CallMultiSelect
    \/ ReadMultiSelect
    \/ CallAutocomplete
    \/ ReadAutocomplete

Spec == Init /\ [][Next]_vars

-----------------------------------------------------------------------------
(* Wizard.  A step is the name it was registered under; its function is    *)
(* the caller's, and is modelled by what it does when invoked: it returns  *)
(* some value or raises, and it does not write the mapping it is handed.   *)

StepNames == {"name", "age", "color"}

StepValues == {"v1", "v2"}

\* the keys of a dict
Keys(d) == {d[i].key : i \in 1..Len(d)}

\* d[k], for a key of d
Lookup(d, k) == d[CHOOSE i \in 1..Len(d) : d[i].key = k].value

\* d[k] = v, had it made a new dict of the one item
DictSetReplacesAll(d, k, v) == <<[key |-> k, value |-> v]>>

\* d[k] = v on a dict: the value of an existing key is replaced where it
\* stands, a new key is added at the end
DictSet(d, k, v) ==
    IF k \in Keys(d)
    THEN [i \in 1..Len(d) |-> IF d[i].key = k THEN [key |-> k, value |-> v]
                                               ELSE d[i]]
    ELSE Append(d, [key |-> k, value |-> v])

\* Wizard.add_step(name, fn), lines 235-237
AddStep ==
    /\ wstatus # "in_step"
    /\ Len(steps) < MaxSteps
    /\ \E name \in StepNames : steps' = Append(steps, name)
    /\ wstatus' = "idle"
    /\ UNCHANGED <<results, step_i, returns, fresh>>
    /\ UNCHANGED <<pvars, vvars>>

\* WizardRun, had run begun by emptying the results
WizardRunResets ==
    /\ wstatus # "in_step"
    /\ returns' = <<>>
    /\ fresh' = TRUE
    /\ results' = <<>>
    /\ IF steps = <<>>
       THEN wstatus' = "returned" /\ step_i' = 0
       ELSE wstatus' = "in_step" /\ step_i' = 1
    /\ UNCHANGED steps
    /\ UNCHANGED <<pvars, vvars>>

\* Wizard.run(), lines 239-246: up to the call of the first step's function,
\* or to the return when no step is registered
WizardRun ==
    /\ wstatus # "in_step"
    /\ returns' = <<>>
    /\ fresh' = (results = <<>>)
    /\ IF steps = <<>>
       THEN wstatus' = "returned" /\ step_i' = 0
       ELSE wstatus' = "in_step" /\ step_i' = 1
    /\ UNCHANGED <<steps, results>>
    /\ UNCHANGED <<pvars, vvars>>

\* Wizard.run(), lines 246-254: the function of the current step returns;
\* its result is stored, and the next step's function is called or run returns
StepReturns ==
    /\ wstatus = "in_step"
    /\ \E v \in StepValues :
        /\ results' = DictSet(results, steps[step_i], v)
        /\ returns' = Append(returns, v)
    /\ IF step_i = Len(steps)
       THEN wstatus' = "returned" /\ step_i' = step_i
       ELSE wstatus' = "in_step" /\ step_i' = step_i + 1
    /\ UNCHANGED <<steps, fresh>>
    /\ UNCHANGED <<pvars, vvars>>

\* Wizard.run(), line 246: the function of the current step raises, and the
\* exception leaves run
StepRaises ==
    /\ wstatus = "in_step"
    /\ wstatus' = "raised"
    /\ UNCHANGED <<steps, results, step_i, returns, fresh>>
    /\ UNCHANGED <<pvars, vvars>>

NextWizard ==
    \/ AddStep
    \/ WizardRun
    \/ StepReturns
    \/ StepRaises

SpecWizard == Init /\ [][NextWizard]_vars

-----------------------------------------------------------------------------
(* A validator applied on its own, outside any prompt.                     *)

NumberBounds == {None, Some(0), Some(150)}

NumberValidators ==
    {number(min_val, max_val) : min_val \in NumberBounds, max_val \in NumberBounds}

ValidatorInputs ==
    { <<>>, <<" ">>, <<"a", "b", "c">>,
      <<"4", "2">>, <<"-", "1">>, <<"2", "0", "0">>, <<"0">>,
      <<"1", "5", "0">>, <<"1", "5", "1">>, <<"+", "7">>,
      <<" ", "4", "2", "\n">>, <<"1", "_", "0">>, <<"1", "_">>,
      <<"4", " ", "2">>, <<"-", "-", "1">>, <<"0", "x", "1", "0">>,
      <<"1", "5", "0", ".", "5">>, <<"-", ".", "5">>, <<".">>,
      <<"2", "E", "2">>, <<"1", "5", "e", "-", "1">>, <<"e", "5">>,
      <<"n", "a", "n">>, <<"I", "n", "f">>,
      <<"-", "i", "n", "f", "i", "n", "i", "t", "y">> }

\* validator(value), called directly
ApplyValidator ==
    /\ \E validator \in Validators \cup NumberValidators,
          v \in ValidatorInputs :
        /\ v_validator' = validator
        /\ v_value' = v
        /\ v_result' = Validate(validator, v)
    /\ UNCHANGED <<pvars, wvars>>

NextValidator == ApplyValidator

SpecValidator == Init /\ [][NextValidator]_vars

-----------------------------------------------------------------------------
(* Properties.  In a state with nread >= 1 the variable value holds the    *)
(* line the last read delivered, status tells whether the call returned on *)
(* it, and out holds what the call wrote after that read.                  *)

Returned(o) == op = o /\ status = "returned"

\* the last pass of operation o ended in a new prompt, preceded by exactly
\* one diagnostic with the given text
Reprompted(o, diagnostic, prompt) ==
    /\ op = o
    /\ status = "reading"
    /\ Len(out) = 2
    /\ out[1].text = diagnostic
    /\ out[2].text = prompt

\* C1: in select an empty input line returns choices[default].value at once,
\* with nothing written and no further prompt, whether or not that choice is
\* disabled.
C1_SelectEmptyReturnsDefault ==
    (op = "select" /\ nread >= 1 /\ value = <<>>)
        => /\ status = "returned"
           /\ result = choices[default + 1].value
           /\ out = <<>>

C1_Witness ==
    /\ Returned("select")
    /\ nread = 1 /\ value = <<>> /\ ~eof
    /\ Len(choices) = 3 /\ default = 2
    /\ choices[3].disabled
    /\ result = choices[3].value

\* the values of the disabled choices of the current choice list
DisabledValues ==
    {choices[i].value : i \in {k \in 1..Len(choices) : choices[k].disabled}}

\* C2 as stated: neither select nor multi_select ever returns the value of a
\* disabled choice.
C2_NeverReturnsDisabled ==
    /\ Returned("select") => result \notin DisabledValues
    /\ Returned("multi_select")
          => \A j \in 1..Len(result) : result[j] \notin DisabledValues

\* C2 amended: multi_select never returns the value of a disabled choice, and
\* select never returns one in answer to a non-empty line; the only disabled
\* value select returns is that of the default choice, on an empty line.
C2_DisabledOnlyAsDefault ==
    /\ Returned("multi_select")
          => \A j \in 1..Len(result) : result[j] \notin DisabledValues
    /\ (Returned("select") /\ value # <<>>) => result \notin DisabledValues
    /\ (Returned("select") /\ result \in DisabledValues)
          => /\ value = <<>>
             /\ result = choices[default + 1].value

C2_Witness ==
    /\ Returned("multi_select")
    /\ value = <<"1", ",", "3", ",", "2">>
    /\ Len(choices) = 3 /\ choices[3].disabled
    /\ result = <<choices[1].value, choices[2].value>>

\* C3: in select a non-empty line that is no integer, or whose number is
\* outside 1..len(choices), is answered with "Invalid selection" and a new
\* prompt; one naming a disabled choice with "This option is disabled" and a
\* new prompt; one naming an enabled choice returns that choice's value.  The
\* call returns on the first such line, whatever number of lines was rejected
\* before it.
C3_SelectClassifiesLine ==
    (op = "select" /\ nread >= 1 /\ value # <<>>)
        => LET typed   == int(value)
               inrange == typed.ok /\ typed.val >= 1 /\ typed.val <= Len(choices)
           IN  /\ ~inrange
                     => Reprompted("select", "Invalid selection", "Enter choice")
               /\ (inrange /\ choices[typed.val].disabled)
                     => Reprompted("select", "This option is disabled",
                                   "Enter choice")
               /\ (inrange /\ ~choices[typed.val].disabled)
                     => /\ status = "returned"
                        /\ result = choices[typed.val].value
                        /\ out = <<>>

C3_Witness ==
    /\ Returned("select")
    /\ nread = 2
    /\ value = <<"1">>
    /\ result = choices[1].value

\* the numbers typed on a comma-separated line, in the order typed
TypedNumbers(line) ==
    LET tokens == split(line, ",")
    IN  [i \in 1..Len(tokens) |-> int(strip(tokens[i]))]

AllParse(line) ==
    \A i \in 1..Len(TypedNumbers(line)) : TypedNumbers(line)[i].ok

\* the positions of the line whose number names an enabled choice
Kept(line) ==
    {i \in 1..Len(TypedNumbers(line)) :
        LET n == TypedNumbers(line)[i].val
        IN  n >= 1 /\ n <= Len(choices) /\ ~choices[n].disabled}

\* r lists, in the order typed, the value of the choice named at each kept
\* position of the line, and nothing else
IsSurvivors(r, line) ==
    /\ Len(r) = Cardinality(Kept(line))
    /\ \A i \in Kept(line) :
          r[Cardinality({k \in Kept(line) : k <= i})]
              = choices[TypedNumbers(line)[i].val].value

\* C4: a list multi_select returns on a non-empty line holds, in the order
\* typed and with repetitions kept, the values of the typed numbers that are
\* in range and enabled; the dropped numbers do not reject the line: a line
\* whose tokens all parse and whose surviving count is within the bounds is
\* accepted.
C4_MultiSelectFilters ==
    (op = "multi_select" /\ nread >= 1 /\ value # <<>>)
        => /\ status = "returned" => IsSurvivors(result, value)
           /\ ( /\ AllParse(value)
                /\ Cardinality(Kept(value)) >= min_select
                /\ (max_select = None \/ Cardinality(Kept(value)) <= max_select[1]) )
                 => status = "returned"

C4_Witness ==
    /\ Returned("multi_select")
    /\ value = <<"1", ",", "3", ",", "2">>
    /\ Len(choices) = 3 /\ choices[3].disabled
    /\ ~choices[1].disabled /\ ~choices[2].disabled
    /\ min_select = 1 /\ max_select = Some(2)
    /\ result = <<choices[1].value, choices[2].value>>

C4_WitnessRepeated ==
    /\ Returned("multi_select")
    /\ Len(choices) = 2
    /\ value = <<"2", ",", "2">>
    /\ result = <<choices[2].value, choices[2].value>>

\* C5: a list multi_select returns has at least min_select entries and, when
\* max_select is a number (0 included), at most max_select entries.
C5_CardinalityBounds ==
    Returned("multi_select")
        => /\ Len(result) >= min_select
           /\ max_select # None => Len(result) <= max_select[1]

\* C6: in multi_select an empty line returns [] at once when min_select is 0,
\* whatever max_select is, and is otherwise answered with the minimum
\* diagnostic and a new prompt.
C6_MultiSelectEmptyLine ==
    (op = "multi_select" /\ nread >= 1 /\ value = <<>>)
        => IF min_select = 0
           THEN status = "returned" /\ result = <<>> /\ out = <<>>
           ELSE /\ Reprompted("multi_select", "Select at least", "Enter choices: ")
                /\ out[1].arg = <<min_select>>

C6_Witness ==
    /\ Returned("multi_select")
    /\ nread = 1 /\ value = <<>> /\ ~eof
    /\ min_select = 0 /\ max_select = Some(1)
    /\ Len(choices) = 2
    /\ result = <<>>

C6_WitnessRetry ==
    /\ op = "multi_select" /\ status = "reading"
    /\ nread = 1 /\ value = <<>> /\ ~eof
    /\ min_select = 1

\* C7: in multi_select a line with a token that is no integer is answered
\* with "Invalid input" and a new prompt, and the list finally returned
\* holds the survivors of the accepted line alone.
C7_InvalidTokenRejectsLine ==
    /\ (op = "multi_select" /\ nread >= 1 /\ value # <<>> /\ ~AllParse(value))
          => Reprompted("multi_select", "Invalid input", "Enter choices: ")
    /\ Returned("multi_select")
          => /\ Len(result) <= Len(split(value, ","))
             /\ \A j \in 1..Len(result) :
                   \E i \in Kept(value) :
                       result[j] = choices[TypedNumbers(value)[i].val].value

C7_Witness ==
    /\ op = "multi_select" /\ status = "reading"
    /\ nread = 2
    /\ value = <<"1", ",", "x">>
    /\ selected # <<>>
    /\ out[1].text = "Invalid input"

\* the candidate of the last attempt of text
Candidate ==
    IF value = <<>> /\ text_default # <<>> THEN text_default ELSE value

Passes(v) ==
    \A i \in 1..Len(validators) : Validate(validators[i], v).valid

\* C8: each attempt of a non-password text takes the line read, or the
\* default when the line is empty and a default was given; the call returns
\* that candidate iff it passes every validator and otherwise prompts again;
\* with no validators it returns after exactly one line.
C8_TextReturnsFirstPassing ==
    (op = "text" /\ ~password /\ nread >= 1)
        => /\ Passes(Candidate) => status = "returned" /\ result = Candidate
           /\ ~Passes(Candidate) => status = "reading"
           /\ validators = <<>> => nread = 1 /\ status = "returned"

C8_Witness ==
    /\ Returned("text") /\ ~password
    /\ nread = 2
    /\ value = <<>> /\ ~eof
    /\ text_default = <<"a", "b">>
    /\ validators = <<required, min_length(2)>>
    /\ result = <<"a", "b">>

C8_WitnessDefaultRejected ==
    /\ op = "text" /\ ~password /\ status = "reading"
    /\ value = <<>> /\ ~eof
    /\ text_default = <<" ">>
    /\ validators = <<required>>

\* C9: a read that hits end-of-input ends the call with an I/O failure: the
\* call neither returns a value nor prompts again.
C9_EndOfInputIsFatal ==
    eof => status = "raised"

\* C10: whenever a call prompts again, it has written at least one message
\* between the line it read and the new prompt.
C10_NoSilentReprompt ==
    (status = "reading" /\ nread >= 1) => Len(out) >= 2

\* word typed in any mixture of upper and lower case
TypedAs(typed, word) ==
    /\ Len(typed) = Len(word)
    /\ \A i \in 1..Len(word) :
          \/ typed[i] = word[i]
          \/ \E k \in 1..26 : LowerCase[k] = word[i] /\ UpperCase[k] = typed[i]

\* C11: confirm reads one line and returns on it, whatever it is: the default
\* on an empty line, otherwise true iff the line, caseless, is y, yes, true
\* or 1.
C11_ConfirmOneLine ==
    (op = "confirm" /\ nread >= 1)
        => /\ nread = 1
           /\ status = "returned"
           /\ out = <<>>
           /\ value = <<>> => result = default
           /\ value # <<>>
                 => result = ( \/ TypedAs(value, <<"y">>)
                               \/ TypedAs(value, <<"y", "e", "s">>)
                               \/ TypedAs(value, <<"t", "r", "u", "e">>)
                               \/ TypedAs(value, <<"1">>) )

C11_Witness ==
    /\ Returned("confirm")
    /\ value = <<"Y", "E", "S">>
    /\ default = FALSE
    /\ result = TRUE

C11_WitnessNoRetry ==
    /\ Returned("confirm")
    /\ value = <<"x">>
    /\ default = TRUE
    /\ result = FALSE

\* the line ends with the suggestion-request marker
EndsWithMarker(l) == l # <<>> /\ l[Len(l)] = "\t"

\* the line without its last character
WithoutLast(l) == IF l = <<>> THEN l ELSE SubSeq(l, 1, Len(l) - 1)

\* the line without the whole run of markers at its end
WithoutTrailingMarkers(l) ==
    LET keep == {k \in 0..Len(l) : \A j \in (k + 1)..Len(l) : l[j] = "\t"}
        n    == CHOOSE k \in keep : \A m \in keep : k <= m
    IN  SubSeq(l, 1, n)

\* the positions of the suggestions that begin with the prefix
Matching(prefix) ==
    {i \in 1..Len(suggestions) :
        /\ Len(suggestions[i]) >= Len(prefix)
        /\ \A j \in 1..Len(prefix) : suggestions[i][j] = prefix[j]}

\* after the read the call wrote the first five suggestions beginning with
\* the prefix, in the order given (nothing when there is none), then the
\* next prompt
ShowsMatches(prefix) ==
    LET M       == Matching(prefix)
        Rank(i) == Cardinality({k \in M : k <= i})
        n       == IF Cardinality(M) < 5 THEN Cardinality(M) ELSE 5
    IN  IF M = {}
        THEN Len(out) = 1 /\ out[1].text = AutocompletePrompt.text
        ELSE /\ Len(out) = 2
             /\ out[1].text = "Suggestions"
             /\ Len(out[1].arg) = n
             /\ \A i \in M : Rank(i) <= n => out[1].arg[Rank(i)] = suggestions[i]
             /\ out[2].text = AutocompletePrompt.text

\* what C12 says of the last pass of autocomplete, for a given reading of
\* "the line minus the marker"
AutocompletePass(prefix) ==
    (op = "autocomplete" /\ nread >= 1)
        => /\ EndsWithMarker(value)
                 => /\ status = "reading"
                    /\ evaluated = 0
                    /\ ShowsMatches(prefix)
           /\ (~EndsWithMarker(value) /\ Passes(value))
                 => status = "returned" /\ result = value
           /\ (~EndsWithMarker(value) /\ ~Passes(value))
                 => /\ status = "reading"
                    /\ Len(out) = 2
                    /\ out[2].text = AutocompletePrompt.text
           /\ status = "returned" => ~EndsWithMarker(result)

\* C12 as stated: a line ending with the marker is not validated and not
\* returned; the call displays at most the first 5 suggestions that start
\* with the line minus the marker, in the given order, and prompts again;
\* any other line is validated as in text and returned or reported.
C12_SuggestionsForLineMinusMarker ==
    AutocompletePass(WithoutLast(value))

\* C12 amended: the prefix is the line minus all the markers at its end.
C12_SuggestionsForLineMinusMarkers ==
    AutocompletePass(WithoutTrailingMarkers(value))

C12_Witness ==
    /\ op = "autocomplete" /\ status = "reading"
    /\ value = <<"a", "\t">>
    /\ Cardinality(Matching(<<"a">>)) = 6
    /\ Len(out) = 2
    /\ Len(out[1].arg) = 5
    /\ out[1].arg[5] = <<"a", "4">>

\* the registered steps have pairwise distinct names
DistinctNames ==
    \A i, j \in 1..Len(steps) : i # j => steps[i] # steps[j]

\* the mapping holds one entry for each of the first n steps, under the
\* step's name and with the value the step returned in this run, and no other
HoldsFirst(n) ==
    /\ Len(results) = n
    /\ Keys(results) = {steps[j] : j \in 1..n}
    /\ \A j \in 1..n : Lookup(results, steps[j]) = returns[j]

\* what C13 says of a run of steps with distinct names
RunInOrder ==
    /\ wstatus = "in_step"
          => /\ step_i \in 1..Len(steps)
             /\ Len(returns) = step_i - 1
             /\ HoldsFirst(step_i - 1)
    /\ wstatus = "returned"
          => /\ Len(returns) = Len(steps)
             /\ HoldsFirst(Len(steps))

\* C13 as stated: in a run of steps with distinct names the functions are
\* invoked one at a time in registration order; when step i's function is
\* invoked the mapping holds exactly the entries of steps 1..i-1; an entry is
\* written only after its function returned; the mapping returned has
\* exactly one entry per step.
C13_RunAccumulatesInOrder ==
    DistinctNames => RunInOrder

\* C13 amended: the same, for a run that begins with the mapping empty (the
\* first run of a Wizard).
C13_FirstRunAccumulatesInOrder ==
    (DistinctNames /\ fresh) => RunInOrder

C13_Witness ==
    /\ wstatus = "in_step"
    /\ step_i = 3
    /\ fresh /\ DistinctNames
    /\ Len(results) = 2
    /\ results[1].key = steps[1] /\ results[2].key = steps[2]

\* C19: over add_step and run calls on one Wizard the keys of the mapping
\* only grow and run does not touch the mapping before its first step
\* returns, so a later run starts with the entries of the earlier ones; a
\* step whose name is already a key replaces that key's value and adds no
\* entry.
C19_ResultsNeverReset ==
    [][ /\ Keys(results) \subseteq Keys(results')
        /\ wstatus # "in_step" => results' = results
        /\ (wstatus = "in_step" /\ Len(returns') = Len(returns) + 1)
              => /\ Lookup(results', steps[step_i]) = returns'[Len(returns')]
                 /\ IF steps[step_i] \in Keys(results)
                    THEN Len(results') = Len(results)
                    ELSE Len(results') = Len(results) + 1
      ]_vars

C19_Witness ==
    /\ wstatus = "in_step"
    /\ step_i = 2
    /\ ~fresh
    /\ Len(steps) = 2 /\ Len(results) = 2
    /\ Keys(results) = {steps[1], steps[2]}

\* strings that denote an integer, each with the integer it denotes
IntegerStrings ==
    { [s |-> <<"4", "2">>, n |-> 42], [s |-> <<"-", "1">>, n |-> 0 - 1],
      [s |-> <<"2", "0", "0">>, n |-> 200], [s |-> <<"0">>, n |-> 0],
      [s |-> <<"1", "5", "0">>, n |-> 150], [s |-> <<"1", "5", "1">>, n |-> 151],
      [s |-> <<"+", "7">>, n |-> 7], [s |-> <<" ", "4", "2", "\n">>, n |-> 42] }

\* strings that denote no number
NonNumericStrings ==
    { <<>>, <<" ">>, <<"a", "b", "c">>, <<"1", "_">>, <<"4", " ", "2">>,
      <<"-", "-", "1">>, <<"0", "x", "1", "0">>, <<".">>, <<"e", "5">> }

\* C14: number(min, max) applied to a string that denotes no number is
\* invalid with "Must be a number"; applied to one that denotes an integer it
\* reports a given min the integer is below, else a given max the integer is
\* above, else it is valid; it always returns a result.
C14_NumberValidator ==
    v_validator.kind = "number" =>
        LET mn == v_validator.min_val
            mx == v_validator.max_val
        IN  /\ v_result.valid \in BOOLEAN
            /\ v_value \in NonNumericStrings
                  => v_result = ValidationResult(FALSE, "Must be a number", <<>>)
            /\ \A i \in IntegerStrings :
                  i.s = v_value =>
                     IF mn # None /\ i.n < mn[1]
                     THEN v_result = ValidationResult(FALSE, "Minimum value is", mn)
                     ELSE IF mx # None /\ i.n > mx[1]
                     THEN v_result = ValidationResult(FALSE, "Maximum value is", mx)
                     ELSE v_result = ValidationResult(TRUE, "", <<>>)

C14_Witness ==
    /\ v_validator = number(Some(150), Some(0))
    /\ v_value = <<"4", "2">>
    /\ v_result = ValidationResult(FALSE, "Minimum value is", Some(150))

\* the value the validators of the pass just made were given
Validated == IF op = "text" THEN Candidate ELSE value

\* the positions in the chain of the validators that reject v
Failing(v) ==
    {i \in 1..Len(validators) : ~Validate(validators[i], v).valid}

\* C16: in text and autocomplete every attempt (a suggestion request apart)
\* runs the chain from its first validator on the value just read and stops
\* at the leftmost validator that rejects it: the attempt writes that
\* validator's message alone, then the prompt, and has called no validator
\* to its right; with no rejecting validator the call returns having called
\* them all and written nothing.
C16_ChainStopsAtFirstFailure ==
    ( /\ op \in {"text", "autocomplete"}
      /\ nread >= 1
      /\ status # "raised"
      /\ ~(op = "autocomplete" /\ EndsWithMarker(value)) )
        => IF Failing(Validated) = {}
           THEN /\ status = "returned"
                /\ out = <<>>
                /\ evaluated = Len(validators)
           ELSE LET k == CHOOSE i \in Failing(Validated) :
                             \A j \in Failing(Validated) : i <= j
                IN  /\ status = "reading"
                    /\ Len(out) = 2
                    /\ out[1] = Validate(validators[k], Validated).message
                    /\ out[2] = IF op = "text" THEN TextPrompt(text_default)
                                ELSE AutocompletePrompt
                    /\ evaluated = k

C16_Witness ==
    /\ op = "text" /\ status = "reading"
    /\ nread = 2
    /\ validators = <<required, min_length(2)>>
    /\ value = <<>> /\ text_default = <<>>
    /\ evaluated = 1
    /\ out[1].text = "This field is required"

C16_WitnessSecondValidator ==
    /\ op = "autocomplete" /\ status = "reading"
    /\ nread = 2
    /\ validators = <<min_length(2), max_length(1)>>
    /\ evaluated = 2
    /\ out[1].text = "Maximum length is"

\* the texts of the input prompts
PromptTexts ==
    {TextPrompt(<<>>).text, ConfirmPrompt(TRUE).text, SelectPrompt(<<>>).text,
     MultiSelectPrompt.text, AutocompletePrompt.text}

\* the call is blocked in a read with its input prompt the last thing
\* written, and no other input prompt written since the read before
OnePromptBeforeRead ==
    /\ out # <<>>
    /\ out[Len(out)].text =
          CASE op = "text" -> TextPrompt(text_default).text
            [] op = "confirm" -> ConfirmPrompt(TRUE).text
            [] op = "select" -> SelectPrompt(choices).text
            [] op = "multi_select" -> MultiSelectPrompt.text
            [] op = "autocomplete" -> AutocompletePrompt.text
    /\ \A i \in 1..(Len(out) - 1) : out[i].text \notin PromptTexts

\* a step in which the running call takes an answer
TakesAnswer == status = "reading" /\ nread' = nread + 1

C17_WitnessPassword ==
    /\ Returned("text") /\ password
    /\ nread = 2
    /\ unread = MaxLines

\* C18: no pass of select or multi_select, accepted or rejected, changes the
\* choice list of the call: its length, its order and the fields of every
\* choice are at the return what they were at the call.
C18_ChoicesUnchanged ==
    [][ (status = "reading" /\ op \in {"select", "multi_select"})
            => /\ choices' = choices
               /\ op' = op
      ]_vars

C18_Witness ==
    /\ Returned("multi_select")
    /\ nread = 2
    /\ Len(choices) = MaxChoices
    /\ \E i \in 1..Len(choices) : choices[i].disabled
    /\ Len(result) = 1

=============================================================================
